---- MODULE Spec2Model ----
(***************************************************************************)
(* EverGrow, the lean "app" engine: StateManager, ProgressionSystem and    *)
(* EventSystem (src/EverGrow/app/state-manager.js,                         *)
(* src/EverGrow/app/event-system.js, and progression-system.js, kept as    *)
(* src/unnamed/part_002).                                                  *)
(*                                                                         *)
(* Numbers.  The JavaScript numbers are doubles; the only fractions the    *)
(* engine introduces are the 0.04 per Fractal Grove and the 0.05 per       *)
(* prestige point of the production multiplier.  The model is fixed point: *)
(* every multiplier, production rate and biomass amount is held in         *)
(* hundredths (Scale), costs and the prestige threshold in whole units.    *)
(* Elapsed seconds of a tick are whole seconds.  Clock values are          *)
(* milliseconds since the construction of the game.                        *)
(*                                                                         *)
(* Fields of the state that the engine writes and never reads (lastTick,   *)
(* lastSave) and the achievement and streak bookkeeping are not part of    *)
(* the record.                                                             *)
(*                                                                         *)
(* The game endpoints of the server (src/EverGrow/backend-server.js: save  *)
(* and prestige) are a second state machine, ServerSpec, over the user     *)
(* document.  RecalcSpec and OfferSpec apply _recalculateProduction and    *)
(* calculatePrestigeReady to states drawn from bounded sets, CostSpec the   *)
(* cost table of getUpgrades.                                              *)
(*                                                                         *)
(* RestartSpec adds the save to localStorage and the reload of the page,   *)
(* LoopSpec the game loop of main.js (src/unnamed/part_004).  BoostSpec is *)
(* the temporary multipliers of the larger ProgressionSystem               *)
(* (src/EverGrow/loss-aversion-engine.js) and PrestigeSpec the             *)
(* executePrestige of src/EverGrow/prestige-system.js, split at its await. *)
(* BulkSpec is purchaseUpgrade of the same ProgressionSystem on a capped   *)
(* upgrade.  SocialSpec is the EventSystem of                              *)
(* src/EverGrow/social-proof-system.js together with the click handler of  *)
(* the game and the timed challenge of src/unnamed/part_001.  LiveSpec is  *)
(* the event engine of the app under fair scheduling.                      *)
(***************************************************************************)
EXTENDS Integers, FiniteSets, Sequences, TLC

VARIABLES
    state,        \* StateManager.state
    activeEvent,  \* EventSystem.activeEvent
    now,          \* Date.now()
    ret,          \* what the last call on the engine returned and did to the events
    ghost,        \* history: production before the running event, and what happened since
    clicks,       \* number of manual actions so far  (bounded by MaxClicks)
    probe,        \* a function of the engine under test: its inputs and results
    user,         \* backend-server.js: the authenticated user's document
    res,          \* backend-server.js: the response to the last request
    storage,      \* localStorage: the save under STORAGE_KEY
    progression,  \* loss-aversion-engine.js: the ProgressionSystem and its game state
    prestige,     \* prestige-system.js: the PrestigeSystem and its calls in flight
    social        \* social-proof-system.js: the EventSystem, game.click and the timed challenge

engineVars == <<state, activeEvent, now, ret, ghost, clicks>>
serverVars == <<user, res>>
vars == <<state, activeEvent, now, ret, ghost, clicks, probe, user, res,
          storage, progression, prestige, social>>

\* what the steps of one component leave alone
notEngine == <<probe, serverVars, storage, progression, prestige, social>>
notServer == <<engineVars, probe, storage, progression, prestige, social>>
notProbe == <<engineVars, serverVars, storage, progression, prestige, social>>

----------------------------------------------------------------------------
\* Bounds of the model

MaxClicks == 10
MaxBiomass == 5500
MaxOwned == 2

TickDeltas == {-1, 0, 5000}
\* the readings of Date.now() the calls can see, in milliseconds after the start
ClockValues == {0, 300000, 360000, 600000}

----------------------------------------------------------------------------
\* Program constants

Scale == 100

EVENT_INTERVAL == 5 * 60 * 1000
EVENT_DURATION == 60 * 1000

Null == [id |-> "null"]

UpgradeIds == {"photosynthesis", "rainmaker", "biosphere", "pulse", "grove"}

\* an id the catalog does not hold
UnknownIds == {"warp-drive"}

\* costScaling is the fraction scalingNum / scalingDen; multiplier is in hundredths
UPGRADE_DEFINITIONS ==
    [id \in UpgradeIds |->
        CASE id = "photosynthesis" ->
                [baseCost |-> 10, scalingNum |-> 23, scalingDen |-> 20,
                 growthPerSecond |-> 1, growthPerClick |-> 0, multiplier |-> 0]
          [] id = "rainmaker" ->
                [baseCost |-> 75, scalingNum |-> 59, scalingDen |-> 50,
                 growthPerSecond |-> 5, growthPerClick |-> 0, multiplier |-> 0]
          [] id = "biosphere" ->
                [baseCost |-> 350, scalingNum |-> 6, scalingDen |-> 5,
                 growthPerSecond |-> 25, growthPerClick |-> 0, multiplier |-> 0]
          [] id = "pulse" ->
                [baseCost |-> 60, scalingNum |-> 27, scalingDen |-> 20,
                 growthPerSecond |-> 0, growthPerClick |-> 1, multiplier |-> 0]
          [] id = "grove" ->
                [baseCost |-> 1200, scalingNum |-> 7, scalingDen |-> 5,
                 growthPerSecond |-> 0, growthPerClick |-> 0, multiplier |-> 4]]

EventIds == {"solar-flare", "seed-rain", "time-rift"}

EVENTS ==
    [id \in EventIds |->
        CASE id = "solar-flare" ->
                [id |-> id, multiplier |-> 2, clickMultiplier |-> 0, instantSeconds |-> 0]
          [] id = "seed-rain" ->
                [id |-> id, multiplier |-> 0, clickMultiplier |-> 3, instantSeconds |-> 0]
          [] id = "time-rift" ->
                [id |-> id, multiplier |-> 0, clickMultiplier |-> 0, instantSeconds |-> 60]]

----------------------------------------------------------------------------
\* StateManager

\* _getDefaultState at clock value t
DefaultState(t) ==
    [biomass |-> 0,
     totalBiomass |-> 0,
     growthPerSecond |-> 0,
     growthPerClick |-> 1 * Scale,
     prestigePoints |-> 0,
     prestigeReadyAt |-> 5000,
     prestigeMultiplier |-> 1 * Scale,
     clickMultiplier |-> 1 * Scale,
     upgrades |-> [id \in UpgradeIds |-> 0],
     event |-> Null,
     lastEventCheck |-> t]

----------------------------------------------------------------------------
\* ProgressionSystem

RECURSIVE Pow(_, _)
Pow(b, n) == IF n = 0 THEN 1 ELSE b * Pow(b, n - 1)

\* Math.ceil(x / y) for x >= 0, y > 0
CeilDiv(x, y) == (x + y - 1) \div y

\* _calculateCost rounding down
CalculateCostFloor(base, num, den, owned) ==
    (base * Pow(num, owned)) \div Pow(den, owned)

\* _calculateCost: Math.ceil(base * Math.pow(scaling, owned))
CalculateCost(base, num, den, owned) ==
    CeilDiv(base * Pow(num, owned), Pow(den, owned))

\* the cost of the next unit of a catalog upgrade in state s (whole units)
CostOf(s, id) ==
    CalculateCost(UPGRADE_DEFINITIONS[id].baseCost,
                  UPGRADE_DEFINITIONS[id].scalingNum,
                  UPGRADE_DEFINITIONS[id].scalingDen,
                  s.upgrades[id])

RECURSIVE SumOver(_, _)
SumOver(f, S) ==
    IF S = {} THEN 0
    ELSE LET x == CHOOSE y \in S : TRUE
         IN  f[x] + SumOver(f, S \ {x})

\* _recalculateProduction starting from the multiplier of the previous call
RecalculateProductionCompounding(s) ==
    LET passive == SumOver([id \in UpgradeIds |->
                        UPGRADE_DEFINITIONS[id].growthPerSecond * s.upgrades[id]], UpgradeIds)
        click == 1 + SumOver([id \in UpgradeIds |->
                        UPGRADE_DEFINITIONS[id].growthPerClick * s.upgrades[id]], UpgradeIds)
        multiplier == s.clickMultiplier + SumOver([id \in UpgradeIds |->
                        UPGRADE_DEFINITIONS[id].multiplier * s.upgrades[id]], UpgradeIds)
    IN  [s EXCEPT !.growthPerSecond = passive * multiplier,
                  !.growthPerClick = click * multiplier,
                  !.clickMultiplier = multiplier]

\* _recalculateProduction
RecalculateProduction(s) ==
    LET passive == SumOver([id \in UpgradeIds |->
                        UPGRADE_DEFINITIONS[id].growthPerSecond * s.upgrades[id]], UpgradeIds)
        click == 1 + SumOver([id \in UpgradeIds |->
                        UPGRADE_DEFINITIONS[id].growthPerClick * s.upgrades[id]], UpgradeIds)
        multiplier == s.prestigeMultiplier + SumOver([id \in UpgradeIds |->
                        UPGRADE_DEFINITIONS[id].multiplier * s.upgrades[id]], UpgradeIds)
    IN  [s EXCEPT !.growthPerSecond = passive * multiplier,
                  !.growthPerClick = click * multiplier,
                  !.clickMultiplier = multiplier]


\* purchase() with the affordability test left out
PurchaseResultNoGuard(s, id) ==
    IF id \notin UpgradeIds
    THEN [state |-> s, value |-> FALSE]
    ELSE LET owned == s.upgrades[id]
             cost == CostOf(s, id)
         IN  [state |-> RecalculateProduction(
                            [s EXCEPT !.biomass = @ - cost * Scale,
                                      !.upgrades[id] = owned + 1]),
              value |-> TRUE]

\* purchase() pricing the unit after the one being bought
PurchaseResultCostAfter(s, id) ==
    IF id \notin UpgradeIds
    THEN [state |-> s, value |-> FALSE]
    ELSE LET owned == s.upgrades[id]
             cost == CostOf([s EXCEPT !.upgrades[id] = owned + 1], id)
         IN  IF s.biomass < cost * Scale
             THEN [state |-> s, value |-> FALSE]
             ELSE [state |-> RecalculateProduction(
                                [s EXCEPT !.biomass = @ - cost * Scale,
                                          !.upgrades[id] = owned + 1]),
                   value |-> TRUE]

\* ProgressionSystem.purchase: the state it leaves and the value it returns
PurchaseResult(s, id) ==
    IF id \notin UpgradeIds
    THEN [state |-> s, value |-> FALSE]
    ELSE LET owned == s.upgrades[id]
             cost == CostOf(s, id)
         IN  IF s.biomass < cost * Scale
             THEN [state |-> s, value |-> FALSE]
             ELSE [state |-> RecalculateProduction(
                                [s EXCEPT !.biomass = @ - cost * Scale,
                                          !.upgrades[id] = owned + 1]),
                   value |-> TRUE]

\* handleTick crediting the spendable balance only
HandleTickBiomassOnly(s, deltaSeconds) ==
    LET gain == s.growthPerSecond * deltaSeconds
    IN  IF gain <= 0 THEN s ELSE [s EXCEPT !.biomass = @ + gain]

\* handleTick without the refusal of a gain <= 0
HandleTickNoGuard(s, deltaSeconds) ==
    LET gain == s.growthPerSecond * deltaSeconds
    IN  [s EXCEPT !.biomass = @ + gain, !.totalBiomass = @ + gain]

\* ProgressionSystem.handleTick(state, deltaSeconds)
HandleTick(s, deltaSeconds) ==
    LET gain == s.growthPerSecond * deltaSeconds
    IN  IF gain <= 0
        THEN s
        ELSE [s EXCEPT !.biomass = @ + gain, !.totalBiomass = @ + gain]

\* ProgressionSystem.handleManualGrowth
HandleManualGrowth(s) ==
    LET gain == s.growthPerClick
    IN  [s EXCEPT !.biomass = @ + gain, !.totalBiomass = @ + gain]

\* the largest r >= from with r * r * threshold <= 25 * biomass
RECURSIVE FloorSqrt5(_, _, _)
FloorSqrt5(from, biomass, threshold) ==
    IF (from + 1) * (from + 1) * threshold * 4 > biomass
    THEN from
    ELSE FloorSqrt5(from + 1, biomass, threshold)

\* ProgressionSystem.calculatePrestigeReady (biomass in hundredths, threshold whole)
CalculatePrestigeReady(s) ==
    [canPrestige |-> s.biomass >= s.prestigeReadyAt * Scale,
     reward |-> FloorSqrt5(0, s.biomass, s.prestigeReadyAt)]

\* the assignments prestige() makes to the draft before it recalculates
PrestigeMutator(s, reward) ==
    [s EXCEPT !.biomass = 0,
              !.growthPerSecond = 0,
              !.totalBiomass = 0,
              !.upgrades = [id \in UpgradeIds |-> 0],
              !.growthPerClick = 1 * Scale,
              !.clickMultiplier = 1 * Scale,
              !.prestigePoints = @ + reward,
              !.prestigeMultiplier = @ + reward * 5,
              !.prestigeReadyAt = (@ * 5) \div 2]

\* prestige() with the eligibility test left out
PrestigeResultNoGuard(s) ==
    [state |-> RecalculateProduction(
                   PrestigeMutator(s, CalculatePrestigeReady(s).reward)),
     value |-> TRUE]

\* prestige() leaving the owned upgrades in place
PrestigeResultKeepsUpgrades(s) ==
    LET ready == CalculatePrestigeReady(s)
    IN  IF ~ready.canPrestige \/ ready.reward <= 0
        THEN [state |-> s, value |-> FALSE]
        ELSE [state |-> RecalculateProduction(
                            [PrestigeMutator(s, ready.reward) EXCEPT
                                !.upgrades = s.upgrades]),
              value |-> TRUE]

\* prestige() awarding no points
PrestigeResultNoPoints(s) ==
    LET ready == CalculatePrestigeReady(s)
    IN  IF ~ready.canPrestige \/ ready.reward <= 0
        THEN [state |-> s, value |-> FALSE]
        ELSE [state |-> RecalculateProduction(
                            [PrestigeMutator(s, ready.reward) EXCEPT
                                !.prestigePoints = s.prestigePoints]),
              value |-> TRUE]

\* prestige() leaving the threshold where it was
PrestigeResultSameThreshold(s) ==
    LET ready == CalculatePrestigeReady(s)
    IN  IF ~ready.canPrestige \/ ready.reward <= 0
        THEN [state |-> s, value |-> FALSE]
        ELSE [state |-> RecalculateProduction(
                            [PrestigeMutator(s, ready.reward) EXCEPT
                                !.prestigeReadyAt = s.prestigeReadyAt]),
              value |-> TRUE]

\* prestige() assigning the bonus to the multiplier instead of adding it
PrestigeResultMultiplierReplaced(s) ==
    LET ready == CalculatePrestigeReady(s)
    IN  IF ~ready.canPrestige \/ ready.reward <= 0
        THEN [state |-> s, value |-> FALSE]
        ELSE [state |-> RecalculateProduction(
                            [PrestigeMutator(s, ready.reward) EXCEPT
                                !.prestigeMultiplier = ready.reward * 5]),
              value |-> TRUE]

\* ProgressionSystem.prestige: the state it leaves and the value it returns
PrestigeResult(s) ==
    LET ready == CalculatePrestigeReady(s)
    IN  IF ~ready.canPrestige \/ ready.reward <= 0
        THEN [state |-> s, value |-> FALSE]
        ELSE [state |-> RecalculateProduction(PrestigeMutator(s, ready.reward)),
              value |-> TRUE]

----------------------------------------------------------------------------
\* EventSystem

IsNull(e) == e.id = "null"

Production(s) ==
    [growthPerSecond |-> s.growthPerSecond,
     growthPerClick |-> s.growthPerClick,
     clickMultiplier |-> s.clickMultiplier]

\* _createEvent at clock value t, the random index having picked id
CreateEvent(id, t) ==
    [id |-> id,
     multiplier |-> EVENTS[id].multiplier,
     clickMultiplier |-> EVENTS[id].clickMultiplier,
     instantSeconds |-> EVENTS[id].instantSeconds,
     startedAt |-> t,
     endsAt |-> t + EVENT_DURATION]

\* the object _applyEvent stores in the state: {...event, snapshot}
Stored(event, snapshot) ==
    [id |-> event.id,
     multiplier |-> event.multiplier,
     clickMultiplier |-> event.clickMultiplier,
     instantSeconds |-> event.instantSeconds,
     startedAt |-> event.startedAt,
     endsAt |-> event.endsAt,
     snapshot |-> snapshot]

\* _applyEvent taking its snapshot after the multipliers are applied
ApplyEventSnapshotAfter(s, event) ==
    LET gain == IF event.instantSeconds # 0
                THEN s.growthPerSecond * event.instantSeconds ELSE 0
        s1 == [s EXCEPT !.biomass = @ + gain, !.totalBiomass = @ + gain]
        s2 == IF event.multiplier # 0
              THEN [s1 EXCEPT !.growthPerSecond = @ * event.multiplier,
                              !.growthPerClick = @ * event.multiplier,
                              !.clickMultiplier = @ * event.multiplier]
              ELSE s1
        s3 == IF event.clickMultiplier # 0
              THEN [s2 EXCEPT !.growthPerClick = @ * event.clickMultiplier,
                              !.clickMultiplier = @ * event.clickMultiplier]
              ELSE s2
    IN  [s3 EXCEPT !.event = Stored(event, Production(s3))]

\* the mutator of _applyEvent
ApplyEvent(s, event) ==
    LET snapshot == Production(s)
        gain == IF event.instantSeconds # 0
                THEN s.growthPerSecond * event.instantSeconds ELSE 0
        s1 == [s EXCEPT !.biomass = @ + gain, !.totalBiomass = @ + gain]
        s2 == IF event.multiplier # 0
              THEN [s1 EXCEPT !.growthPerSecond = @ * event.multiplier,
                              !.growthPerClick = @ * event.multiplier,
                              !.clickMultiplier = @ * event.multiplier]
              ELSE s1
        s3 == IF event.clickMultiplier # 0
              THEN [s2 EXCEPT !.growthPerClick = @ * event.clickMultiplier,
                              !.clickMultiplier = @ * event.clickMultiplier]
              ELSE s2
    IN  [s3 EXCEPT !.event = Stored(event, snapshot)]

\* _endEvent undoing a mismatched event by dividing its multipliers out
EndEventDividesOut(s, event) ==
    IF s.event.id # event.id
    THEN LET m == IF event.multiplier # 0 THEN event.multiplier ELSE 1
             c == IF event.clickMultiplier # 0 THEN event.clickMultiplier ELSE 1
         IN  [s EXCEPT !.growthPerSecond = @ \div m,
                       !.growthPerClick = @ \div (m * c),
                       !.clickMultiplier = @ \div (m * c),
                       !.event = Null]
    ELSE [s EXCEPT !.growthPerSecond = s.event.snapshot.growthPerSecond,
                   !.growthPerClick = s.event.snapshot.growthPerClick,
                   !.clickMultiplier = s.event.snapshot.clickMultiplier,
                   !.event = Null]

\* the mutator of _endEvent, event being the activeEvent that ends
EndEvent(s, event) ==
    IF s.event.id # event.id
    THEN [s EXCEPT !.event = Null]
    ELSE [s EXCEPT !.growthPerSecond = s.event.snapshot.growthPerSecond,
                   !.growthPerClick = s.event.snapshot.growthPerClick,
                   !.clickMultiplier = s.event.snapshot.clickMultiplier,
                   !.event = Null]

\* the expiry test with an exclusive comparison
ExpiredStrict(event, t) == ~IsNull(event) /\ t > event.endsAt

\* the expiry test of update()
Expired(event, t) == ~IsNull(event) /\ t >= event.endsAt

\* update() with its early return left out
MayTriggerUnthrottled(s, event, t) == TRUE

\* the test of update() that lets the scheduling check run
MayTrigger(s, event, t) == ~(t - s.lastEventCheck < EVENT_INTERVAL \/ ~IsNull(event))

\* EventSystem.update at clock value t; shouldTrigger and pick are the two
\* Math.random() draws.  ended and started name the event instances the call
\* ended and started (Null: none), reverted tells whether _endEvent took the
\* branch that writes the snapshot back.
UpdateResult(s, event, t, shouldTrigger, pick) ==
    LET expired == Expired(event, t)
        s1 == IF expired THEN EndEvent(s, event) ELSE s
        e1 == IF expired THEN Null ELSE event
        ended == IF expired THEN event ELSE Null
        reverted == expired /\ s.event.id = event.id
    IN  IF ~MayTrigger(s, e1, t)
        THEN [state |-> s1, activeEvent |-> e1, ended |-> ended,
              reverted |-> reverted, started |-> Null]
        ELSE LET s2 == [s1 EXCEPT !.lastEventCheck = t]
             IN  IF ~shouldTrigger
                 THEN [state |-> s2, activeEvent |-> e1, ended |-> ended,
                       reverted |-> reverted, started |-> Null]
                 ELSE LET e2 == CreateEvent(pick, t)
                      IN  [state |-> ApplyEvent(s2, e2), activeEvent |-> e2,
                           ended |-> ended, reverted |-> reverted, started |-> e2]


----------------------------------------------------------------------------
\* backend-server.js: the user document and the game endpoints.  Currency
\* amounts are whole units.  A failing req.user.save() (the 500 responses) is
\* not modelled.

\* what a client may put in the body of POST /api/game/save
ClientCurrency == {0, 2000000}
ClientCurrencyPerSecond == {0, 10}
ClientTotals == {0, 1000000, 1200000, 1258926, 100000000}
ClientClickPower == {0, 5}
ClientUpgrades == {{}, {"auto-harvester"}}

\* the schema defaults of a registered user
NewUser ==
    [gameState |-> [currency |-> 0,
                    currencyPerSecond |-> 0,
                    totalCurrencyEarned |-> 0,
                    clickPower |-> 1,
                    prestigeLevel |-> 0,
                    prestigePoints |-> 0,
                    soulCurrency |-> 0,
                    totalPrestiges |-> 0],
     upgrades |-> {}]

Min(a, b) == IF a <= b THEN a ELSE b
Max(a, b) == IF a >= b THEN a ELSE b

\* userSchema.methods.canPrestige.  The totals of the model stay below 10^10,
\* the requirement of prestige level 2, which is never computed.
CanPrestige(u) ==
    /\ u.gameState.prestigeLevel < 2
    /\ u.gameState.totalCurrencyEarned >= Pow(10, 6 + u.gameState.prestigeLevel * 2)

\* RewardThresholds[level + 1][k] is the least total t >= 10^6 for which
\* Math.floor(Math.log10(t / 1000000) * 10 * (1 + level * 0.1)) >= k, for the
\* totals up to 10^8 and the levels 0 and 1 at which canPrestige can hold
RewardThresholds ==
    << <<1258926, 1584894, 1995263, 2511887, 3162278, 3981072, 5011873,
         6309574, 7943283, 10000000, 12589255, 15848932, 19952624, 25118865,
         31622777, 39810718, 50118724, 63095735, 79432824, 100000000>>,
       <<1232847, 1519912, 1873818, 2310130, 2848036, 3511192, 4328762,
         5336700, 6579333, 8111309, 10000000, 12328468, 15199111, 18738175,
         23101298, 28480359, 35111918, 43287613, 53366993, 65793323, 81113084,
         100000000>> >>

\* userSchema.methods.calculatePrestigeReward (multiplier in hundredths).
\* Below a total of 10^6 the logarithm is negative: only the sign is kept.
CalculatePrestigeReward(u) ==
    LET total == u.gameState.totalCurrencyEarned
        level == u.gameState.prestigeLevel
        reached == RewardThresholds[level + 1]
        points == IF total < 1000000 THEN -1
                  ELSE Cardinality({k \in DOMAIN reached : reached[k] <= total})
    IN  [points |-> points,
         souls |-> points \div 10,
         multiplier |-> 1 * Scale + (level + 1) * 50]

\* calculateMaxPossibleCPS; totalPlayTime is never written, so timeMultiplier
\* is Math.log10(0 / 3600 + 1) + 1 = 1
CalculateMaxPossibleCPS(gameState) == 1000000 * Pow(10, gameState.prestigeLevel)

\* validateGameState(clientState, serverState)
ValidateGameState(clientState, serverState) ==
    LET maxReasonableGrowth == serverState.currencyPerSecond * 3600 * 24
    IN  [currency |->
            IF clientState.currency - serverState.currency > maxReasonableGrowth
            THEN serverState.currency + maxReasonableGrowth
            ELSE Max(0, clientState.currency),
         currencyPerSecond |->
            Min(clientState.currencyPerSecond, CalculateMaxPossibleCPS(serverState)),
         totalCurrencyEarned |->
            Max(serverState.totalCurrencyEarned, clientState.totalCurrencyEarned),
         clickPower |-> Max(1, Min(clientState.clickPower, 1000))]

NoRewards == [points |-> 0, souls |-> 0, multiplier |-> 0]

\* res.status(status).json(...): the status, the error and the rewards sent
Response(status, error, rewards) ==
    [status |-> status, error |-> error, rewards |-> rewards]

\* POST /api/game/save: the document it stores and the response it sends
SaveResult(u, gameState, upgrades) ==
    LET validatedState == ValidateGameState(gameState, u.gameState)
    IN  [user |-> [gameState |->
                      [u.gameState EXCEPT
                          !.currency = validatedState.currency,
                          !.currencyPerSecond = validatedState.currencyPerSecond,
                          !.totalCurrencyEarned = validatedState.totalCurrencyEarned,
                          !.clickPower = validatedState.clickPower],
                   upgrades |-> upgrades],
         res |-> Response(200, "", NoRewards)]

\* POST /api/game/prestige: the document it stores and the response it sends
ServerPrestigeResult(u) ==
    IF ~CanPrestige(u)
    THEN [user |-> u, res |-> Response(400, "Cannot prestige yet", NoRewards)]
    ELSE LET rewards == CalculatePrestigeReward(u)
         IN  [user |-> [gameState |->
                           [u.gameState EXCEPT
                               !.currency = 0,
                               !.currencyPerSecond = 0,
                               !.clickPower = 1,
                               !.prestigeLevel = @ + 1,
                               !.prestigePoints = @ + rewards.points,
                               !.soulCurrency = @ + rewards.souls,
                               !.totalPrestiges = @ + 1],
                        upgrades |-> {}],
              res |-> Response(200, "", rewards)]

----------------------------------------------------------------------------
\* StateManager and localStorage.  Spec is one session of the page: in it the
\* save is written and never read, and storage is left alone.  RestartSpec
\* writes the save and constructs the game again from it.

\* localStorage holds no save, or the one written last
NoSave == {}

\* _persist: localStorage.setItem(STORAGE_KEY, JSON.stringify(this.state))
Persist(s) == {s}

\* _loadState at clock value t: {...this._getDefaultState(), ...parsed}
LoadState(stored, t) ==
    IF stored = NoSave
    THEN DefaultState(t)
    ELSE LET parsed == CHOOSE s \in stored : TRUE
             default == DefaultState(t)
         IN  [f \in DOMAIN default |->
                 IF f \in DOMAIN parsed THEN parsed[f] ELSE default[f]]

\* new EverGrowGame(): the state after the constructors and
\* progression.recalculateFromState()
Constructed(stored, t) == RecalculateProduction(LoadState(stored, t))

----------------------------------------------------------------------------
\* loss-aversion-engine.js: ProgressionSystem, its multipliers and the
\* currencyPerSecond it writes into the game state.  The auto clicker
\* (baseProduction 1) is the one building owned, below its first milestone
\* of 10, so the milestone, synergy and compound factors of updateProduction
\* are 1; multipliers.global stays 1, no currency milestone being reached.
\* Multipliers are whole numbers here, remaining times milliseconds.

\* the ProgressionSystem as constructed; last is the call made last, added
\* the number of temporary multipliers added so far, ticked whether update()
\* has run since the last of them was added
NewProgression ==
    [owned |-> 0,
     production |-> 1,
     click |-> 1,
     prestigeProduction |-> 1,
     temporary |-> <<>>,
     currencyPerSecond |-> 0,
     last |-> "constructor",
     added |-> 0,
     ticked |-> FALSE]

\* the product of the values of the temporary multipliers of a type
RECURSIVE ProductOf(_, _)
ProductOf(temporary, type) ==
    IF temporary = <<>> THEN 1
    ELSE (IF Head(temporary).type = type THEN Head(temporary).value ELSE 1)
            * ProductOf(Tail(temporary), type)

\* updateProduction
UpdateProduction(p) ==
    [p EXCEPT !.currencyPerSecond = p.owned * p.production * p.prestigeProduction]

\* loadSaveData of a save with the given number of auto clickers
LoadSaveData(p, owned) ==
    [UpdateProduction([p EXCEPT !.owned = owned]) EXCEPT !.last = "loadSaveData"]

\* addTemporaryMultiplier(type, value, duration), duration in seconds
AddTemporaryMultiplier(p, type, value, duration) ==
    [UpdateProduction(
        [p EXCEPT !.temporary = Append(@, [type |-> type, value |-> value,
                                             remaining |-> duration * 1000])])
     EXCEPT !.last = "addTemporaryMultiplier", !.added = @ + 1, !.ticked = FALSE]

\* updateTemporaryMultipliers(deltaTime), deltaTime in seconds
UpdateTemporaryMultipliers(p, deltaTime) ==
    LET deltaMs == deltaTime * 1000
        aged == [i \in DOMAIN p.temporary |->
                    [p.temporary[i] EXCEPT !.remaining = @ - deltaMs]]
        Alive(mult) == mult.remaining > 0
        kept == SelectSeq(aged, Alive)
    IN  [p EXCEPT !.temporary = kept,
                  !.production = @ * ProductOf(kept, "production"),
                  !.click = @ * ProductOf(kept, "click")]

\* update(deltaTime): of its steps only updateTemporaryMultipliers acts here
\* (nothing is queued, no milestone is reached, no exponential engine owned)
UpdateProgression(p, deltaTime) ==
    [UpdateTemporaryMultipliers(p, deltaTime) EXCEPT
        !.last = "update", !.ticked = TRUE]

----------------------------------------------------------------------------
\* prestige-system.js: PrestigeSystem.  The game state it is handed has
\* prestigeLevel 0 and a run older than an hour (no speed bonus); the soul
\* and run time statistics are left out.

\* the PrestigeSystem as constructed, with the game state it is handed;
\* inflight holds the rewards of the calls of executePrestige that are
\* suspended in their await, calls counts the calls made so far
NewPrestigeSystem ==
    [gameState |-> [totalCurrencyEarned |-> 0, prestigeLevel |-> 0,
                    premiumCurrency |-> 0],
     statistics |-> [totalPrestiges |-> 0, totalPointsEarned |-> 0],
     unlockedLevel |-> 0,
     inflight |-> <<>>,
     calls |-> 0]

\* milestoneRewards[1].rewards
FirstTranscendence == [premiumCurrency |-> 100, permanentMultiplier |-> 2]

\* calculateRewards(gameState), for a total of at least baseRequirement: the
\* points are floor(log10(total / 1000000) * 10 * (1 + prestigeLevel * 0.1)),
\* the formula of the server; of the milestones only that of level 1 arises
CalculateRewards(gameState) ==
    LET reached == RewardThresholds[gameState.prestigeLevel + 1]
    IN  [points |-> Cardinality({k \in DOMAIN reached :
                                    reached[k] <= gameState.totalCurrencyEarned}),
         bonuses |-> IF gameState.prestigeLevel + 1 = 1
                     THEN <<FirstTranscendence>> ELSE <<>>]

\* updateStatistics(gameState)
UpdateStatistics(ps) ==
    [ps EXCEPT !.statistics.totalPrestiges = @ + 1,
               !.statistics.totalPointsEarned =
                    @ + CalculateRewards(ps.gameState).points]

\* executePrestige up to its await: the statistics are updated, the rewards
\* are calculated and the call is suspended in playPrestigeAnimation
ExecutePrestigeSuspended(ps) ==
    [UpdateStatistics(ps) EXCEPT
        !.inflight = Append(@, CalculateRewards(ps.gameState)),
        !.calls = @ + 1]

\* applyMilestoneRewards(bonuses, newLevel) on the game state
RECURSIVE PremiumOf(_)
PremiumOf(bonuses) ==
    IF bonuses = <<>> THEN 0
    ELSE Head(bonuses).premiumCurrency + PremiumOf(Tail(bonuses))

\* applyMilestoneRewards(bonuses, newLevel) on
\* game.progression.multipliers.prestige.production
RECURSIVE PermanentOf(_)
PermanentOf(bonuses) ==
    IF bonuses = <<>> THEN 1
    ELSE Head(bonuses).permanentMultiplier * PermanentOf(Tail(bonuses))

\* executePrestige after its await, for the call suspended first:
\* applyMilestoneRewards and unlockPrestigeUpgrades
ExecutePrestigeResumed(ps) ==
    LET rewards == Head(ps.inflight)
    IN  [ps EXCEPT !.gameState.premiumCurrency = @ + PremiumOf(rewards.bonuses),
                   !.unlockedLevel = ps.gameState.prestigeLevel + 1,
                   !.inflight = Tail(@)]

----------------------------------------------------------------------------
\* social-proof-system.js: EventSystem, with the click handler of the game
\* it wraps and the timed challenge of the FlowStateManager
\* (src/unnamed/part_001) that wraps the same handler.  Times are
\* milliseconds.
\*
\* game.click is a chain of wrappers: <<>> is the click handler the game was
\* built with, and <<w>> \o h is the wrapper w that captured h as its
\* originalClick.  An event is the record of its id (a serial number), its
\* type after the template and the custom configuration are merged, its
\* endTime, state.completed, state.progress and its cleanup.

ShortEventDuration == 300000
MediumEventDuration == 1800000
MinTimeBetweenEvents == 7200000
MiniRequiredClicks == 100
MiniGlobalMultiplier == 10
MiniGoldenDuration == 120000
ChallengeTarget == 50
ChallengeTimeLimit == 30000

OriginalClick == <<>>

NoCleanup == [set |-> FALSE, original |-> OriginalClick]

\* phase: "none", "running", "completed" (the target was reached and the
\* timeout is still to come) or "over" (the timeout has fired)
NoChallenge ==
    [phase |-> "none", current |-> 0, startTime |-> 0, original |-> OriginalClick]

\* the EventSystem as constructed, the game with its own click handler and
\* no challenge; lastGrant is what the last click granted, in units of
\* clickPower, clicksMade the number of times the player has gone clicking
NewEventSystem ==
    [initialized |-> FALSE,
     now |-> 0,
     nextEventTime |-> 0,
     lastEventType |-> "",
     totalEventsRun |-> 0,
     activeEvents |-> <<>>,
     eventHistory |-> <<>>,
     cleanups |-> <<>>,
     click |-> OriginalClick,
     lastGrant |-> 0,
     clicksMade |-> 0,
     challenge |-> NoChallenge]

\* the templates the scheduled trigger draws from, with the type and the
\* duration the template gives the event
ScheduledTypes == {"clickRush", "flashSale"}
TemplateType(eventType) ==
    CASE eventType = "clickRush" -> "individual"
      [] eventType = "flashSale" -> "monetization"
      [] eventType = "goldenHour" -> "passive"
      [] eventType = "communityGoal" -> "cooperative"

\* getEventDuration(template.duration)
TemplateDuration(eventType) ==
    CASE eventType = "clickRush" -> ShortEventDuration
      [] eventType = "flashSale" -> ShortEventDuration
      [] eventType = "goldenHour" -> MediumEventDuration
      [] eventType = "communityGoal" -> 2 * MediumEventDuration

\* startEvent(eventType, customConfig): type is customConfig.type where the
\* configuration has one, the type of the template otherwise.  The event is
\* pushed and applyEventEffects installs the click wrapper of a clickRush
\* and the cleanup of a flash sale ("monetization" never reaches its case).
StartEvent(es, eventType, type) ==
    LET id == es.totalEventsRun + 1
        wrapped == type = "clickRush"
        event == [id |-> id,
                  type |-> type,
                  endTime |-> es.now + TemplateDuration(eventType),
                  completed |-> FALSE,
                  progress |-> 0,
                  cleanup |-> IF wrapped
                              THEN [set |-> TRUE, original |-> es.click]
                              ELSE NoCleanup]
    IN  [es EXCEPT !.activeEvents = Append(@, event),
                   !.click = IF wrapped
                             THEN <<[by |-> "event", id |-> id]>> \o es.click
                             ELSE es.click,
                   !.totalEventsRun = id]

\* endEvent(event, completed): the cleanup runs, the event goes to the history
EndBackendEvent(es, event) ==
    [es EXCEPT !.click = IF event.cleanup.set THEN event.cleanup.original ELSE @,
               !.cleanups = IF event.cleanup.set THEN Append(@, event.id) ELSE @,
               !.eventHistory = Append(@, event.id)]

\* the position of the event with the given id among the active ones, 0 if
\* it is not there
ActiveIndex(es, id) ==
    IF \E i \in DOMAIN es.activeEvents : es.activeEvents[i].id = id
    THEN CHOOSE i \in DOMAIN es.activeEvents : es.activeEvents[i].id = id
    ELSE 0

\* completeEvent(event) for the active event at position i
CompleteEvent(es, i) ==
    IF es.activeEvents[i].completed
    THEN es
    ELSE EndBackendEvent([es EXCEPT !.activeEvents[i].completed = TRUE],
                         es.activeEvents[i])

\* the filter of updateActiveEvents over the events from position i on: an
\* event that is over or completed is ended and dropped
RECURSIVE FilterActive(_, _, _)
FilterActive(es, events, kept) ==
    IF events = <<>>
    THEN [es EXCEPT !.activeEvents = kept]
    ELSE LET event == Head(events)
         IN  IF es.now >= event.endTime \/ event.completed
             THEN FilterActive(EndBackendEvent(es, event), Tail(events), kept)
             ELSE FilterActive(es, Tail(events), Append(kept, event))

\* updateActiveEvents()
UpdateActiveEvents(es) == FilterActive(es, es.activeEvents, <<>>)

\* checkEventSchedule(), eventType being the type triggerRandomEvent settles
\* on and delay the one scheduleNextEvent draws
CheckEventSchedule(es, eventType, delay) ==
    IF es.now >= es.nextEventTime /\ Len(es.activeEvents) = 0
    THEN [StartEvent(es, eventType, TemplateType(eventType)) EXCEPT
                !.lastEventType = eventType,
                !.nextEventTime = es.now + delay]
    ELSE es

\* the click handler h is called: the wrapper at its head calls the handler
\* it captured and then does its own part
RECURSIVE RunClick(_, _)
RunClick(es, h) ==
    IF h = OriginalClick
    THEN [es EXCEPT !.lastGrant = @ + 1]
    ELSE LET w == Head(h)
             inner == RunClick(es, Tail(h))
         IN  IF w.by = "event"
             THEN LET i == ActiveIndex(inner, w.id)
                      granted == [inner EXCEPT !.lastGrant = @ + 1]
                  IN  IF i = 0 THEN granted
                      ELSE LET counted == [granted EXCEPT !.activeEvents[i].progress = @ + 1]
                           IN  IF counted.activeEvents[i].progress >= MiniRequiredClicks
                               THEN CompleteEvent(counted, i)
                               ELSE counted
             ELSE LET counted == [inner EXCEPT !.challenge.current = @ + 1]
                  IN  IF counted.challenge.current >= ChallengeTarget
                      THEN [counted EXCEPT !.click = counted.challenge.original,
                                           !.challenge.phase =
                                                IF @ = "running" THEN "completed" ELSE @]
                      ELSE counted

\* game.click()
GameClick(es) == RunClick([es EXCEPT !.lastGrant = 0], es.click)

\* game.click() a number of times in a row, times >= 1: the first half of
\* the clicks, then the rest (every click grants something)
RECURSIVE GameClicks(_, _)
GameClicks(es, times) ==
    IF times = 1 THEN GameClick(es)
    ELSE LET first == GameClicks(es, times \div 2)
         IN  IF first.lastGrant > 0
             THEN GameClicks(first, times - times \div 2)
             ELSE first

\* createTimedChallenge()
CreateTimedChallenge(es) ==
    [es EXCEPT !.challenge = [phase |-> "running", current |-> 0,
                              startTime |-> es.now, original |-> es.click],
               !.click = <<[by |-> "challenge", id |-> 0]>> \o es.click]

\* the timeout of the challenge
ChallengeTimeout(es) ==
    IF es.challenge.current < ChallengeTarget
    THEN [es EXCEPT !.click = es.challenge.original, !.challenge.phase = "over"]
    ELSE [es EXCEPT !.challenge.phase = "over"]

----------------------------------------------------------------------------
\* The engine as a state machine.  Every handler runs to completion (the host
\* is single threaded), so each call is one step.

\* a call returns true, false or nothing; update() also ends and starts events
Undefined == "undefined"

JsBool(b) == IF b THEN "true" ELSE "false"

\* pre: the production just before the running event was applied; since: the
\* calls that rewrote production while it has been running
NoHistory == [pre |-> Production(DefaultState(0)), since |-> {}]

\* id: the upgrade id a purchase was called with ("" for the other calls);
\* history: the history of the event the call ended
Returned(id, value) ==
    [id |-> id, value |-> value, ended |-> Null, reverted |-> FALSE,
     history |-> NoHistory, started |-> Null]

\* no function is under test
NoProbe == [calls |-> 0]

Since(call) ==
    IF IsNull(activeEvent) THEN ghost ELSE [ghost EXCEPT !.since = @ \cup {call}]

\* the engine after construction
EngineInit ==
    /\ state = DefaultState(0)
    /\ activeEvent = Null
    /\ now = 0
    /\ ret = Returned("", Undefined)
    /\ ghost = NoHistory
    /\ clicks = 0

\* the server with a freshly registered user and no request made
ServerInit ==
    /\ user = NewUser
    /\ res = Response(0, "", NoRewards)

\* nothing saved; the other front end systems as constructed
ClientInit ==
    /\ storage = NoSave
    /\ progression = NewProgression
    /\ prestige = NewPrestigeSystem
    /\ social = NewEventSystem

Init ==
    /\ EngineInit
    /\ probe = NoProbe
    /\ ServerInit
    /\ ClientInit

\* Date.now() moves on between two calls
AdvanceClock(t) ==
    /\ t > now
    /\ now' = t
    /\ UNCHANGED <<state, activeEvent, ret, ghost, clicks, notEngine>>

\* the purchase button of an upgrade, or any caller of purchase(id)
Purchase(id) ==
    LET r == PurchaseResult(state, id)
    IN  /\ id \in UpgradeIds => SumOver(state.upgrades, UpgradeIds) < MaxOwned
        /\ state' = r.state
        /\ ret' = Returned(id, JsBool(r.value))
        /\ ghost' = IF r.value THEN Since("purchase") ELSE ghost
        /\ UNCHANGED <<activeEvent, now, clicks, notEngine>>

\* one handleTick of the game loop
Tick(deltaSeconds) ==
    /\ state.totalBiomass + state.growthPerSecond * deltaSeconds <= MaxBiomass * Scale
    /\ state' = HandleTick(state, deltaSeconds)
    /\ ret' = Returned("", Undefined)
    /\ UNCHANGED <<activeEvent, now, ghost, clicks, notEngine>>

\* the grow button
ManualGrowth ==
    /\ clicks < MaxClicks
    /\ state' = HandleManualGrowth(state)
    /\ clicks' = clicks + 1
    /\ ret' = Returned("", Undefined)
    /\ UNCHANGED <<activeEvent, now, ghost, notEngine>>

\* the prestige button
Prestige ==
    LET r == PrestigeResult(state)
    IN  /\ state' = r.state
        /\ ret' = Returned("", JsBool(r.value))
        /\ ghost' = IF r.value THEN Since("prestige") ELSE ghost
        /\ UNCHANGED <<activeEvent, now, clicks, notEngine>>

\* the reset button: StateManager.reset
Reset ==
    /\ state' = DefaultState(now)
    /\ ret' = Returned("", Undefined)
    /\ ghost' = Since("reset")
    /\ UNCHANGED <<activeEvent, now, clicks, notEngine>>

\* EventSystem.update of the game loop
Update(shouldTrigger, pick) ==
    LET r == UpdateResult(state, activeEvent, now, shouldTrigger, pick)
    IN  /\ state' = r.state
        /\ activeEvent' = r.activeEvent
        /\ ret' = [Returned("", Undefined) EXCEPT !.ended = r.ended,
                                                  !.reverted = r.reverted,
                                                  !.history = IF IsNull(r.ended)
                                                              THEN NoHistory ELSE ghost,
                                                  !.started = r.started]
        /\ ghost' = IF ~IsNull(r.started)
                    THEN [pre |-> Production(IF Expired(activeEvent, now)
                                             THEN EndEvent(state, activeEvent)
                                             ELSE state),
                          since |-> {}]
                    ELSE IF IsNull(r.ended) THEN ghost ELSE NoHistory
        /\ UNCHANGED <<now, clicks, notEngine>>

Next ==
    \/ \E t \in ClockValues : AdvanceClock(t)
    \/ \E id \in UpgradeIds \cup UnknownIds : Purchase(id)
    \/ \E deltaSeconds \in TickDeltas : Tick(deltaSeconds)
    \/ ManualGrowth
    \/ Prestige
    \/ Reset
    \/ \E shouldTrigger \in BOOLEAN, pick \in EventIds : Update(shouldTrigger, pick)

Spec == Init /\ [][Next]_vars

----------------------------------------------------------------------------
\* The game endpoints of the server as a state machine: one request per step

PostSave(gameState, upgrades) ==
    LET r == SaveResult(user, gameState, upgrades)
    IN  /\ user' = r.user
        /\ res' = r.res
        /\ UNCHANGED notServer

PostPrestige ==
    LET r == ServerPrestigeResult(user)
    IN  /\ user' = r.user
        /\ res' = r.res
        /\ UNCHANGED notServer

ServerNext ==
    \/ \E currency \in ClientCurrency, currencyPerSecond \in ClientCurrencyPerSecond,
          totalCurrencyEarned \in ClientTotals, clickPower \in ClientClickPower,
          upgrades \in ClientUpgrades :
            PostSave([currency |-> currency,
                      currencyPerSecond |-> currencyPerSecond,
                      totalCurrencyEarned |-> totalCurrencyEarned,
                      clickPower |-> clickPower], upgrades)
    \/ PostPrestige

ServerSpec == Init /\ [][ServerNext]_vars

----------------------------------------------------------------------------
\* _recalculateProduction applied again and again to one draft

MaxProbeOwned == 1
MaxCalls == 2

\* 1 + 0.05 * prestigePoints for 0, 5 and 10 points
PrestigeMultipliers == {1 * Scale, 1 * Scale + 5 * 5, 1 * Scale + 10 * 5}

\* the states recalculateFromState can find: some owned upgrades and prestige
\* bonus with the production that follows from them, and possibly an event
\* applied on top
RecalcDrafts ==
    LET settled == {RecalculateProduction(
                        [DefaultState(0) EXCEPT !.upgrades = u,
                                                !.prestigeMultiplier = m]) :
                        u \in [UpgradeIds -> 0..MaxProbeOwned],
                        m \in PrestigeMultipliers}
    IN  settled \cup {ApplyEvent(s, CreateEvent(id, 0)) : s \in settled, id \in EventIds}

RecalcInit ==
    /\ EngineInit
    /\ ServerInit
    /\ ClientInit
    /\ probe \in {[calls |-> 0, draft |-> d, first |-> Production(d)] : d \in RecalcDrafts}

\* recalculateFromState; first keeps the production the first call produced
RecalculateFromState ==
    /\ probe.calls < MaxCalls
    /\ LET d == RecalculateProduction(probe.draft)
       IN  probe' = [calls |-> probe.calls + 1,
                     draft |-> d,
                     first |-> IF probe.calls = 0 THEN Production(d) ELSE probe.first]
    /\ UNCHANGED notProbe

RecalcNext == RecalculateFromState

RecalcSpec == RecalcInit /\ [][RecalcNext]_vars

----------------------------------------------------------------------------
\* getUpgrades listing the cost of the next unit of every upgrade

MaxCostOwned == 2

\* getUpgrades(state): the cost shown for each upgrade
GetUpgrades(s) == [id \in UpgradeIds |-> CostOf(s, id)]

CostInit ==
    /\ EngineInit
    /\ ServerInit
    /\ ClientInit
    /\ probe \in {[calls |-> 0,
                   draft |-> [DefaultState(0) EXCEPT !.upgrades = u],
                   costs |-> [id \in UpgradeIds |-> 0],
                   nextCosts |-> [id \in UpgradeIds |-> 0]] :
                    u \in [UpgradeIds -> 0..MaxCostOwned]}

\* the shop listing the costs for the draft, and per upgrade the cost it
\* lists once one more unit of that upgrade is owned
ListCosts ==
    /\ probe.calls = 0
    /\ probe' = [probe EXCEPT
            !.calls = 1,
            !.costs = GetUpgrades(probe.draft),
            !.nextCosts = [id \in UpgradeIds |->
                GetUpgrades([probe.draft EXCEPT !.upgrades[id] = @ + 1])[id]]]
    /\ UNCHANGED notProbe

CostNext == ListCosts

CostSpec == CostInit /\ [][CostNext]_vars

----------------------------------------------------------------------------
\* calculatePrestigeReady applied to two states of the game

\* spendable and lifetime biomass (whole units) and thresholds of the states
OfferAmounts == {4988, 5000, 7200, 9000}
OfferThresholds == {5000, 12500}

OfferStates ==
    {s \in {[DefaultState(0) EXCEPT !.biomass = b * Scale,
                                    !.totalBiomass = t * Scale,
                                    !.prestigeReadyAt = threshold] :
                b \in OfferAmounts, t \in OfferAmounts,
                threshold \in OfferThresholds} :
        s.biomass <= s.totalBiomass}

OfferInit ==
    /\ EngineInit
    /\ ServerInit
    /\ ClientInit
    /\ probe \in {[calls |-> 0, a |-> x, b |-> y, offers |-> <<>>] :
                    x \in OfferStates, y \in OfferStates}

\* the prestige panel computing what it offers in each of the two states
CalculateOffers ==
    /\ probe.calls = 0
    /\ probe' = [probe EXCEPT !.calls = 1,
                              !.offers = <<CalculatePrestigeReady(probe.a),
                                           CalculatePrestigeReady(probe.b)>>]
    /\ UNCHANGED notProbe

OfferNext == CalculateOffers

OfferSpec == OfferInit /\ [][OfferNext]_vars


----------------------------------------------------------------------------
\* The backend ProgressionSystem with its temporary multipliers: a system
\* that loaded a save with some auto clickers, on which boosts are added,
\* update(deltaTime) is called and the 100 ms production timer fires.

MaxAutoClickers == 2
MaxBoosts == 2
BoostTypes == {"production", "click"}
\* the boost of checkUpgradeMilestone: addTemporaryMultiplier('production', 2, 10)
BoostValue == 2
BoostDuration == 10
BoostDeltas == {4, 10}

notProgression == <<engineVars, probe, serverVars, storage, prestige, social>>

BoostInit ==
    /\ EngineInit
    /\ probe = NoProbe
    /\ ServerInit
    /\ storage = NoSave
    /\ prestige = NewPrestigeSystem
    /\ social = NewEventSystem
    /\ progression \in {LoadSaveData(NewProgression, owned) : owned \in 1..MaxAutoClickers}

\* addTemporaryMultiplier(type, 2, 10)
AddBoost(type) ==
    /\ progression.added < MaxBoosts
    /\ progression' = AddTemporaryMultiplier(progression, type, BoostValue, BoostDuration)
    /\ UNCHANGED notProgression

\* update(deltaTime)
ProgressionUpdate(deltaTime) ==
    /\ progression' = UpdateProgression(progression, deltaTime)
    /\ UNCHANGED notProgression

\* the production timer: updateProduction()
ProductionLoop ==
    /\ progression' = [UpdateProduction(progression) EXCEPT !.last = "updateProduction"]
    /\ UNCHANGED notProgression

BoostNext ==
    \/ \E type \in BoostTypes : AddBoost(type)
    \/ \E deltaTime \in BoostDeltas : ProgressionUpdate(deltaTime)
    \/ ProductionLoop

BoostSpec == BoostInit /\ [][BoostNext]_vars

----------------------------------------------------------------------------
\* Saving and restarting: the page is played, the state is saved (the
\* autosave timer or a purchase) and the page is loaded again, which
\* constructs the StateManager, the ProgressionSystem and the EventSystem anew.

MaxSessionClicks == 3

\* the grow button, a few times in all
SessionGrowth ==
    /\ clicks < MaxSessionClicks
    /\ ManualGrowth

\* recordSave: the state goes to localStorage (lastSave is not modelled)
RecordSave ==
    /\ storage' = Persist(state)
    /\ UNCHANGED <<engineVars, probe, serverVars, progression, prestige, social>>

\* the page is loaded again: a new StateManager loads the save, the new
\* EventSystem has no active event, the constructor of the game recalculates
Restart ==
    /\ state' = Constructed(storage, now)
    /\ activeEvent' = Null
    /\ ret' = Returned("", Undefined)
    /\ ghost' = NoHistory
    /\ UNCHANGED <<now, clicks, probe, serverVars, storage, progression, prestige, social>>

RestartNext ==
    \/ \E t \in ClockValues : AdvanceClock(t)
    \/ SessionGrowth
    \/ \E shouldTrigger \in BOOLEAN, pick \in EventIds : Update(shouldTrigger, pick)
    \/ RecordSave
    \/ Restart

RestartSpec == Init /\ [][RestartNext]_vars

----------------------------------------------------------------------------
\* The game loop of main.js on a game loaded from a save with one
\* photosynthesis: every iteration calls handleTick and then
\* EventSystem.update.  The history of the running event is not kept here.

MaxLoopBiomass == 20
LoopDeltas == {1, 5}

\* a save holding one photosynthesis and nothing else
SavedSprout == Persist([DefaultState(0) EXCEPT !.upgrades["photosynthesis"] = 1])

LoopInit ==
    /\ state = Constructed(SavedSprout, 0)
    /\ activeEvent = Null
    /\ now = 0
    /\ ret = Returned("", Undefined)
    /\ ghost = NoHistory
    /\ clicks = 0
    /\ probe = NoProbe
    /\ ServerInit
    /\ storage = SavedSprout
    /\ progression = NewProgression
    /\ prestige = NewPrestigeSystem
    /\ social = NewEventSystem

\* one iteration of _loop with delta >= TICK_RATE
Loop(deltaSeconds, shouldTrigger, pick) ==
    LET ticked == HandleTick(state, deltaSeconds)
        r == UpdateResult(ticked, activeEvent, now, shouldTrigger, pick)
    IN  /\ state.totalBiomass + state.growthPerSecond * deltaSeconds
                <= MaxLoopBiomass * Scale
        /\ state' = r.state
        /\ activeEvent' = r.activeEvent
        /\ ret' = [Returned("", Undefined) EXCEPT !.ended = r.ended,
                                                  !.reverted = r.reverted,
                                                  !.started = r.started]
        /\ UNCHANGED <<now, ghost, clicks, notEngine>>

LoopNext ==
    \/ \E t \in ClockValues : AdvanceClock(t)
    \/ \E deltaSeconds \in LoopDeltas, shouldTrigger \in BOOLEAN, pick \in EventIds :
            Loop(deltaSeconds, shouldTrigger, pick)

LoopSpec == LoopInit /\ [][LoopNext]_vars

----------------------------------------------------------------------------
\* executePrestige among the other handlers of the page: the call runs up to
\* its await, the handlers of the ProgressionSystem and further calls of
\* executePrestige run while the animation plays, and the call resumes when
\* the timer of the animation resolves its promise (first suspended, first
\* resumed: the timers have the same duration).

MaxPrestigeCalls == 2
PrestigeTotals == {1000000, 1258926, 2000000}

PrestigeInit ==
    /\ EngineInit
    /\ probe = NoProbe
    /\ ServerInit
    /\ storage = NoSave
    /\ progression \in {LoadSaveData(NewProgression, owned) : owned \in 1..MaxAutoClickers}
    /\ prestige \in {[NewPrestigeSystem EXCEPT !.gameState.totalCurrencyEarned = total] :
                        total \in PrestigeTotals}
    /\ social = NewEventSystem

\* executePrestige(gameState) is called and runs to its await
ExecutePrestigeBegin ==
    /\ prestige.calls < MaxPrestigeCalls
    /\ prestige' = ExecutePrestigeSuspended(prestige)
    /\ UNCHANGED <<engineVars, probe, serverVars, storage, progression, social>>

\* the promise of playPrestigeAnimation resolves and the call runs to its end
ExecutePrestigeResume ==
    /\ prestige.inflight # <<>>
    /\ prestige' = ExecutePrestigeResumed(prestige)
    /\ progression' = [progression EXCEPT
            !.prestigeProduction = @ * PermanentOf(Head(prestige.inflight).bonuses)]
    /\ UNCHANGED <<engineVars, probe, serverVars, storage, social>>

PrestigeNext ==
    \/ ExecutePrestigeBegin
    \/ ExecutePrestigeResume
    \/ \E type \in BoostTypes : AddBoost(type)
    \/ \E deltaTime \in BoostDeltas : ProgressionUpdate(deltaTime)
    \/ ProductionLoop

PrestigeSpec == PrestigeInit /\ [][PrestigeNext]_vars

----------------------------------------------------------------------------
\* The event engine under fair scheduling: the clock keeps advancing and the
\* game loop keeps calling update().  The clock of the model ends at
\* LastClock, so an event is only started when its endsAt is a time the
\* clock still reaches.

LiveClock == ClockValues \cup {660000}
LastClock == 660000

\* EventSystem.update of the game loop
LiveUpdate(shouldTrigger, pick) ==
    /\ shouldTrigger => now + EVENT_DURATION <= LastClock
    /\ Update(shouldTrigger, pick)

LiveNext ==
    \/ \E t \in LiveClock : AdvanceClock(t)
    \/ SessionGrowth
    \/ Reset
    \/ \E shouldTrigger \in BOOLEAN, pick \in EventIds : LiveUpdate(shouldTrigger, pick)

LiveSpec ==
    /\ Init
    /\ [][LiveNext]_vars
    /\ WF_vars(\E t \in LiveClock : AdvanceClock(t))
    /\ WF_vars(\E shouldTrigger \in BOOLEAN, pick \in EventIds :
                    LiveUpdate(shouldTrigger, pick))

----------------------------------------------------------------------------
\* purchaseUpgrade of the larger ProgressionSystem on its capped upgrade
\* timeWarp (baseCost 10000, costMultiplier 2, maxOwned 5), unlocked by a
\* loaded save, with no producer owned (currencyPerSecond 0, so the instant
\* effect adds nothing) and multipliers.cost 1.  Amounts stay below 25.

TimeWarpBaseCost == 10000
TimeWarpCostMultiplier == 2
TimeWarpMaxOwned == 5
MaxBulkCalls == 2
BulkAmounts == {1, 2, 3, 10}
BulkCurrency == {0, 160000, 500000, 10000000}

\* the sum of the loop of calculateUpgradeCost
RECURSIVE GeometricCost(_, _)
GeometricCost(owned, amount) ==
    IF amount <= 0 THEN 0
    ELSE TimeWarpBaseCost * Pow(TimeWarpCostMultiplier, owned)
            + GeometricCost(owned + 1, amount - 1)

\* calculateUpgradeCost('timeWarp', amount) with the given number owned; the
\* total is a multiple of 10, so Math.floor(totalCost * 0.9) is nine tenths
CalculateUpgradeCost(owned, amount) ==
    LET totalCost == GeometricCost(owned, amount)
    IN  IF amount >= 10 THEN (totalCost \div 10) * 9 ELSE totalCost

\* purchaseUpgrade('timeWarp', amount) on g = [owned, currency]
PurchaseUpgrade(g, amount) ==
    LET cost == CalculateUpgradeCost(g.owned, amount)
        clamped == IF g.owned + amount > TimeWarpMaxOwned
                   THEN TimeWarpMaxOwned - g.owned ELSE amount
    IN  IF g.currency < cost \/ clamped <= 0
        THEN [owned |-> g.owned, currency |-> g.currency, value |-> FALSE]
        ELSE [owned |-> g.owned + clamped, currency |-> g.currency - cost,
              value |-> TRUE]

BulkInit ==
    /\ EngineInit
    /\ ServerInit
    /\ ClientInit
    /\ probe \in {[calls |-> 0, amount |-> 0,
                   before |-> [owned |-> owned, currency |-> currency, value |-> FALSE],
                   after |-> [owned |-> owned, currency |-> currency, value |-> FALSE]] :
                        owned \in 0..TimeWarpMaxOwned, currency \in BulkCurrency}

\* a call of purchaseUpgrade('timeWarp', amount)
BulkPurchase(amount) ==
    /\ probe.calls < MaxBulkCalls
    /\ probe' = [calls |-> probe.calls + 1, amount |-> amount,
                 before |-> probe.after,
                 after |-> PurchaseUpgrade(probe.after, amount)]
    /\ UNCHANGED notProbe

BulkNext == \E amount \in BulkAmounts : BulkPurchase(amount)

BulkSpec == BulkInit /\ [][BulkNext]_vars

----------------------------------------------------------------------------
\* The backend EventSystem with the handlers that start, complete and end
\* its events, the clicks of the player and the timed challenge.

MaxEvents == 2
MaxSocialClicks == 1
ClickBursts == {1, MiniRequiredClicks}
SocialClock == {0, 30000, 300000, 1800000, 7200000}
ScheduleDelays == {MinTimeBetweenEvents}
MiniTypes == {"clickRush", "goldenHour"}

notSocial == <<engineVars, probe, serverVars, storage, progression, prestige>>

\* checkSpecialEvents() on a day that is or is not in the weekend window and
\* is or is not a holiday date
CheckSpecialEvents(es, isWeekend, isHoliday) ==
    LET Has(e, type) == \E i \in DOMAIN e.activeEvents : e.activeEvents[i].type = type
        es1 == IF isWeekend /\ ~Has(es, "weekend")
               THEN StartEvent(es, "goldenHour", "weekend") ELSE es
    IN  IF isHoliday /\ ~Has(es1, "holiday")
        THEN StartEvent(es1, "communityGoal", "holiday") ELSE es1

\* initialize(): the first event is scheduled, the timers are started and the
\* special events are checked
Initialize(isWeekend, isHoliday, delay) ==
    /\ ~social.initialized
    /\ social' = CheckSpecialEvents(
                    [social EXCEPT !.initialized = TRUE,
                                   !.nextEventTime = social.now + delay],
                    isWeekend, isHoliday)
    /\ UNCHANGED notSocial

\* Date.now() moves on
AdvanceSocialClock(t) ==
    /\ t > social.now
    /\ social' = [social EXCEPT !.now = t]
    /\ UNCHANGED notSocial

\* the one second timer of startEventMonitoring
Monitor(eventType, delay) ==
    /\ social.initialized
    /\ eventType # social.lastEventType
    /\ social.totalEventsRun < MaxEvents
    /\ social' = CheckEventSchedule(UpdateActiveEvents(social), eventType, delay)
    /\ UNCHANGED notSocial

\* triggerMiniEvent(), mini being the one the random index picks; Power Surge
\* adds its temporary multiplier to the ProgressionSystem
TriggerMiniEvent(mini) ==
    /\ social.totalEventsRun < MaxEvents
    /\ social' = StartEvent(social, mini, mini)
    /\ progression' = IF mini = "goldenHour"
                      THEN AddTemporaryMultiplier(progression, "production",
                                MiniGlobalMultiplier, MiniGoldenDuration \div 1000)
                      ELSE progression
    /\ UNCHANGED <<engineVars, probe, serverVars, storage, prestige>>

\* the player clicks a number of times in a row
Click(times) ==
    /\ social.clicksMade < MaxSocialClicks
    /\ social' = [GameClicks(social, times) EXCEPT !.clicksMade = social.clicksMade + 1]
    /\ UNCHANGED notSocial

\* the FlowStateManager starts its timed challenge (one per session here)
StartChallenge ==
    /\ social.challenge.phase = "none"
    /\ social' = CreateTimedChallenge(social)
    /\ UNCHANGED notSocial

\* the timer of the challenge fires
Timeout ==
    /\ social.challenge.phase \in {"running", "completed"}
    /\ social.now >= social.challenge.startTime + ChallengeTimeLimit
    /\ social' = ChallengeTimeout(social)
    /\ UNCHANGED notSocial

SocialNext ==
    \/ \E isWeekend \in BOOLEAN, isHoliday \in BOOLEAN, delay \in ScheduleDelays :
            Initialize(isWeekend, isHoliday, delay)
    \/ \E t \in SocialClock : AdvanceSocialClock(t)
    \/ \E eventType \in ScheduledTypes, delay \in ScheduleDelays : Monitor(eventType, delay)
    \/ \E mini \in MiniTypes : TriggerMiniEvent(mini)
    \/ \E times \in ClickBursts : Click(times)
    \/ StartChallenge
    \/ Timeout

SocialSpec == Init /\ [][SocialNext]_vars

----------------------------------------------------------------------------
\* Vocabulary of the properties

\* a step of update(), whatever the two random draws were
UpdateStep == \E shouldTrigger \in BOOLEAN, pick \in EventIds : Update(shouldTrigger, pick)

\* a step of update() in which _endEvent ran
EndStep == Expired(activeEvent, now) /\ UpdateStep

\* the object stored in the state is the stored copy of this event instance
SameInstance(stored, event) ==
    /\ ~IsNull(stored)
    /\ ~IsNull(event)
    /\ stored.id = event.id
    /\ stored.startedAt = event.startedAt
    /\ stored.endsAt = event.endsAt

\* the production _endEvent left behind in a step of update(): when the same
\* call went on to start an event, it is what that event's snapshot recorded
AfterEnd ==
    IF IsNull(ret'.started) THEN Production(state') ELSE state'.event.snapshot

\* the outcome purchase() gives for a catalog upgrade the player cannot afford
InsufficientOutcome == JsBool(PurchaseResult(DefaultState(0), "photosynthesis").value)

\* a step of prestige() that returned true
SuccessfulPrestige == ret'.value = "true" /\ ret'.id = "" /\ Prestige

\* the reward calculatePrestigeReady offers in the current state
Reward == CalculatePrestigeReady(state).reward

\* the last call was prestige() and it returned true
Prestiged == ret.id = "" /\ ret.value = "true"

----------------------------------------------------------------------------
\* C1: no operation of the engine (tick, manual action, purchase, event start,
\* event end, prestige; the save reset aside) ever decreases totalBiomass, and
\* a successful prestige leaves it unchanged.
C1_TotalBiomassNeverDecreases ==
    [][/\ ~Reset => state'.totalBiomass >= state.totalBiomass
       /\ (ret'.value = "true" /\ Prestige) => state'.totalBiomass = state.totalBiomass]_vars

\* C2: a successful prestige during an event discards the event (state.event
\* is null afterwards), and the later end of that event leaves the production
\* fields at their post-prestige values.
C2_PrestigeDiscardsEvent ==
    [][/\ (ret'.value = "true" /\ Prestige) => IsNull(state'.event)
       /\ ("prestige" \in ghost.since /\ EndStep) => AfterEnd = Production(state)]_vars

\* C3: _endEvent writes the snapshot into growthPerSecond, growthPerClick and
\* clickMultiplier only when the event stored in the state is the instance
\* that is ending; on a mismatch it changes no production field; either way
\* the ended event is no longer stored in the state.
C3_EndEventRevertsOnlyItsOwnEvent ==
    [][EndStep =>
        /\ SameInstance(state.event, activeEvent) => AfterEnd = state.event.snapshot
        /\ ~SameInstance(state.event, activeEvent) => AfterEnd = Production(state)
        /\ ret'.reverted <=> SameInstance(state.event, activeEvent)
        /\ ~SameInstance(state'.event, activeEvent)]_vars

\* C3 witness: an event has just ended on a mismatch (the state was reset
\* while it ran), and no event was started by the same call
C3_Witness ==
    /\ ~IsNull(ret.ended)
    /\ ~ret.reverted
    /\ IsNull(ret.started)
    /\ "reset" \in ret.history.since

\* C4: update() never applies a new event while activeEvent is non-null: when
\* a call starts an event, no event was active, or the active one had expired
\* and was ended by that same call; and the one stored event is the active one.
C4_AtMostOneActiveEvent ==
    [][(~IsNull(ret'.started) /\ UpdateStep) =>
        /\ IsNull(activeEvent) \/ Expired(activeEvent, now)
        /\ IsNull(activeEvent) \/ ret'.ended = activeEvent
        /\ activeEvent' = ret'.started
        /\ SameInstance(state'.event, activeEvent')]_vars

\* C4 witness: a call of update() ended the running event and started the next
C4_Witness ==
    /\ ~IsNull(ret.ended)
    /\ ~IsNull(ret.started)
    /\ activeEvent = ret.started

C6_ExpiryIsInclusive ==
    [][(~IsNull(activeEvent) /\ now >= activeEvent.endsAt /\ UpdateStep) =>
        /\ ret'.ended = activeEvent
        /\ IsNull(activeEvent') \/ activeEvent'.endsAt > now
        /\ IsNull(state'.event) \/ state'.event.endsAt > now]_vars

\* C6 witness: an event was ended by an update() made exactly at its endsAt
C6_Witness ==
    /\ ~IsNull(ret.ended)
    /\ ret.ended.endsAt = now
    /\ IsNull(activeEvent)
    /\ IsNull(state.event)

\* C7: a purchase of a catalog upgrade the player can afford succeeds, takes
\* exactly the cost computed from the pre-purchase owned count off biomass and
\* adds one to the owned count.
C7_PurchaseDeductsCostAndAddsOne ==
    [][\A id \in UpgradeIds :
        (ret'.id = id /\ state.biomass >= CostOf(state, id) * Scale /\ Purchase(id)) =>
            /\ ret'.value = "true"
            /\ state'.biomass = state.biomass - CostOf(state, id) * Scale
            /\ state'.upgrades[id] = state.upgrades[id] + 1]_vars

\* C7 witness: the second unit of an upgrade has just been bought
C7_Witness ==
    /\ ret.id \in UpgradeIds
    /\ ret.value = "true"
    /\ state.upgrades[ret.id] = 2

\* C8: a purchase with biomass < cost returns false and changes nothing.
C8_UnaffordablePurchaseChangesNothing ==
    [][\A id \in UpgradeIds :
        (ret'.id = id /\ state.biomass < CostOf(state, id) * Scale /\ Purchase(id)) =>
            /\ ret'.value = "false"
            /\ state' = state
            /\ activeEvent' = activeEvent]_vars

\* C8 witness: a refused purchase by a player who owns biomass and an upgrade
C8_Witness ==
    /\ ret.id \in UpgradeIds
    /\ ret.value = "false"
    /\ state.biomass > 0
    /\ state.biomass < CostOf(state, ret.id) * Scale
    /\ state.growthPerSecond > 0

\* C9: a purchase with an id outside the catalog is rejected with an outcome
\* that differs from the insufficient-resource outcome.
C9_UnknownUpgradeIsADistinctError ==
    ret.id \in UnknownIds => ret.value \notin {"true", InsufficientOutcome}

\* C10: biomass is never negative.
C10_BiomassNonNegative == state.biomass >= 0

\* C10 witness: a purchase has just spent the whole biomass
C10_Witness ==
    /\ ret.id \in UpgradeIds
    /\ ret.value = "true"
    /\ state.biomass = 0
    /\ state.totalBiomass > 0

\* C11: calculatePrestigeReady(state).canPrestige is true exactly when
\* totalBiomass >= prestigeReadyAt, in every reachable state, states in which
\* biomass has been spent on upgrades included.
C11_EligibleIffLifetimeReachesThreshold ==
    CalculatePrestigeReady(state).canPrestige
        <=> state.totalBiomass >= state.prestigeReadyAt * Scale

\* C12: prestige() in a state that is not eligible returns false and changes
\* no field of the state (no reset, no points, same threshold and multiplier).
C12_IneligiblePrestigeChangesNothing ==
    [][(~CalculatePrestigeReady(state).canPrestige /\ Prestige) =>
        /\ ret'.value = "false"
        /\ state' = state
        /\ activeEvent' = activeEvent]_vars

\* C12 witness: prestige() has just been refused to a player who owns
\* upgrades and some biomass below the threshold
C12_Witness ==
    /\ ret.id = ""
    /\ ret.value = "false"
    /\ state.biomass > 0
    /\ state.biomass < state.prestigeReadyAt * Scale
    /\ state.growthPerSecond > 0

\* C13: a successful prestige() sets biomass to 0, every owned count to 0 and
\* growthPerSecond to 0.
C13_PrestigeResetsBiomassUpgradesAndRate ==
    [][SuccessfulPrestige =>
        /\ state'.biomass = 0
        /\ \A id \in UpgradeIds : state'.upgrades[id] = 0
        /\ state'.growthPerSecond = 0]_vars

\* C13 witness: a prestige has just succeeded and left an empty run
C13_Witness ==
    /\ Prestiged
    /\ state.biomass = 0
    /\ state.growthPerSecond = 0
    /\ SumOver(state.upgrades, UpgradeIds) = 0

\* C14: after a successful prestige() growthPerClick equals the base click
\* value 1, whatever prestigeMultiplier has accumulated.
C14_PrestigeResetsClickToBase ==
    [][SuccessfulPrestige => state'.growthPerClick = 1 * Scale]_vars

\* C15 as stated: no operation of the engine decreases prestigePoints, and a
\* successful prestige() adds exactly the computed reward, which is > 0.
C15_PrestigePointsNeverDecrease ==
    [][/\ state'.prestigePoints >= state.prestigePoints
       /\ SuccessfulPrestige =>
            /\ Reward > 0
            /\ state'.prestigePoints = state.prestigePoints + Reward]_vars

\* C15, amended: no operation of the engine other than StateManager.reset()
\* decreases prestigePoints, and a successful prestige() adds exactly the
\* computed reward, which is > 0.
C15_PrestigePointsDecreaseOnlyOnReset ==
    [][/\ state'.prestigePoints >= state.prestigePoints \/ Reset
       /\ SuccessfulPrestige =>
            /\ Reward > 0
            /\ state'.prestigePoints = state.prestigePoints + Reward]_vars

\* C15 witness: a prestige has just awarded its points
C15_Witness ==
    /\ Prestiged
    /\ state.prestigePoints > 0

\* C16: a successful prestige() makes prestigeReadyAt strictly greater, namely
\* floor(old * 2.5), and tick, click, purchase, event start and event end
\* (and a refused prestige) leave it as it is.
C16_ThresholdGrowsOnlyOnPrestige ==
    [][/\ SuccessfulPrestige =>
            /\ state'.prestigeReadyAt = (state.prestigeReadyAt * 5) \div 2
            /\ state'.prestigeReadyAt > state.prestigeReadyAt
       /\ \/ state'.prestigeReadyAt = state.prestigeReadyAt
          \/ Reset
          \/ SuccessfulPrestige]_vars

\* C16 witness: the threshold has been raised by a prestige and the player
\* has bought an upgrade in the new run
C16_Witness ==
    /\ state.prestigeReadyAt > DefaultState(0).prestigeReadyAt
    /\ SumOver(state.upgrades, UpgradeIds) > 0

\* C17: prestigeMultiplier is >= 1 in every reachable state; a successful
\* prestige() adds reward * 0.05 to it; tick, manual action, purchase, event
\* start, event end and prestige never decrease or reset it.
C17_PrestigeMultiplierOnlyGrows ==
    /\ [](state.prestigeMultiplier >= 1 * Scale)
    /\ [][/\ SuccessfulPrestige =>
                state'.prestigeMultiplier = state.prestigeMultiplier + Reward * 5
          /\ state'.prestigeMultiplier >= state.prestigeMultiplier \/ Reset]_vars

\* C17 witness: an event has ended in a run played with a prestige bonus
C17_Witness ==
    /\ state.prestigeMultiplier > 1 * Scale
    /\ ~IsNull(ret.ended)
    /\ ret.reverted

\* C18: the prestige reward is monotonic in lifetime earnings: of two eligible
\* states with the same threshold, the one with the higher totalBiomass is
\* offered at least as many points as the other.
C18_RewardMonotonicInLifetimeBiomass ==
    (/\ probe.calls = 1
     /\ probe.offers[1].canPrestige
     /\ probe.offers[2].canPrestige
     /\ probe.a.prestigeReadyAt = probe.b.prestigeReadyAt
     /\ probe.a.totalBiomass > probe.b.totalBiomass)
        => probe.offers[1].reward >= probe.offers[2].reward

\* C19: POST /api/game/prestige never performs a reset that awards <= 0
\* points: when canPrestige() holds and calculatePrestigeReward().points is
\* <= 0, the request is rejected and the user's game state is unchanged.
C19_ServerPrestigeNeverAwardsNothing ==
    [][(/\ CanPrestige(user)
        /\ CalculatePrestigeReward(user).points <= 0
        /\ PostPrestige) =>
            /\ res'.status = 400
            /\ user' = user]_vars

\* C20: _recalculateProduction is idempotent: a second call in a row leaves
\* growthPerSecond, growthPerClick and clickMultiplier as the first call
\* left them.
C20_RecalculateProductionIdempotent ==
    probe.calls >= 2 => Production(probe.draft) = probe.first

\* C20 witness: two calls in a row on a draft with a Fractal Grove, a prestige
\* bonus and a production-doubling event applied, which the first call undid
C20_Witness ==
    /\ probe.calls = 2
    /\ probe.draft.upgrades["grove"] > 0
    /\ probe.draft.prestigeMultiplier > 1 * Scale
    /\ probe.draft.event.id = "solar-flare"
    /\ probe.first = probe.draft.event.snapshot
    /\ probe.first.growthPerSecond > 0

\* C21: after _recalculateProduction growthPerSecond is (pods + 5 drones +
\* 25 biospheres) * M and growthPerClick is (1 + amplifiers) * M, where M is
\* prestigeMultiplier + 0.04 per grove; with nothing owned growthPerSecond
\* is exactly 0.
C21_RecalculateProductionFormula ==
    probe.calls >= 1 =>
        LET owned == probe.draft.upgrades
            M == probe.draft.prestigeMultiplier + 4 * owned["grove"]
        IN  /\ probe.draft.growthPerSecond =
                    (owned["photosynthesis"] + 5 * owned["rainmaker"]
                        + 25 * owned["biosphere"]) * M
            /\ probe.draft.growthPerClick = (1 + owned["pulse"]) * M
            /\ (\A id \in UpgradeIds : owned[id] = 0) =>
                    probe.draft.growthPerSecond = 0

\* C21 witness: one call on a draft owning drones, an amplifier and a grove,
\* with a prestige bonus
C21_Witness ==
    /\ probe.calls = 1
    /\ probe.draft.upgrades["rainmaker"] > 0
    /\ probe.draft.upgrades["pulse"] > 0
    /\ probe.draft.upgrades["grove"] > 0
    /\ probe.draft.prestigeMultiplier > 1 * Scale

\* C22: handleTick with d > 0 elapsed seconds adds exactly growthPerSecond * d
\* to biomass and to totalBiomass, handleManualGrowth adds exactly
\* growthPerClick to both, and neither changes anything else of the state or
\* the active event.
C22_TickAndClickCreditBothCounters ==
    [][/\ \A d \in TickDeltas : (d > 0 /\ Tick(d)) =>
            /\ state' = [state EXCEPT
                            !.biomass = @ + state.growthPerSecond * d,
                            !.totalBiomass = @ + state.growthPerSecond * d]
            /\ activeEvent' = activeEvent
       /\ (clicks' # clicks /\ ManualGrowth) =>
            /\ state' = [state EXCEPT
                            !.biomass = @ + state.growthPerClick,
                            !.totalBiomass = @ + state.growthPerClick]
            /\ activeEvent' = activeEvent]_vars

\* C22 witness: a producing player after a long tick and all the clicks
C22_Witness ==
    /\ clicks = MaxClicks
    /\ state.growthPerSecond > 0
    /\ state.totalBiomass >= 5000 * Scale
    /\ state.biomass = state.totalBiomass - 10 * Scale

\* C23: handleTick with a negative or zero elapsed time changes nothing.
C23_NonPositiveTickIsNoOp ==
    [][\A d \in TickDeltas : (d <= 0 /\ Tick(d)) =>
            /\ state' = state
            /\ activeEvent' = activeEvent]_vars

\* C23 witness: nothing has been earned since the purchase that spent the
\* whole balance, the last call having been a tick or an idle update()
C23_Witness ==
    /\ ret = Returned("", Undefined)
    /\ state.growthPerSecond > 0
    /\ state.biomass = 0

\* C24: for every catalog upgrade the cost ceil(baseCost * costScaling^n) is
\* strictly increasing in n and never below baseCost; for base 10 and scaling
\* 1.15 it is 10, 12 and 21 at n = 0, 1 and 5.
C24_CostStrictlyIncreasing ==
    probe.calls = 1 =>
        /\ \A id \in UpgradeIds :
            /\ probe.nextCosts[id] > probe.costs[id]
            /\ probe.costs[id] >= UPGRADE_DEFINITIONS[id].baseCost
        /\ CalculateCost(10, 23, 20, 0) = 10
        /\ CalculateCost(10, 23, 20, 1) = 12
        /\ CalculateCost(10, 23, 20, 5) = 21

\* C24 witness: the costs listed for a player with one pod and two groves
C24_Witness ==
    /\ probe.calls = 1
    /\ probe.draft.upgrades["photosynthesis"] = 1
    /\ probe.draft.upgrades["grove"] = 2
    /\ probe.costs["photosynthesis"] = 12
    /\ probe.nextCosts["photosynthesis"] = 14

\* The temporary production multipliers that are active.
ActiveProduction ==
    SelectSeq(progression.temporary, LAMBDA mult : mult.type = "production")

\* C25: while two temporary production multipliers of magnitude 2 are both
\* active (and update has run since the last one was added),
\* multipliers.production is exactly 4 times its un-boosted value 1, and the
\* production the timer computes is 4 times the un-boosted production.
C25_TwoBoostsMultiplyToFour ==
    (/\ Len(ActiveProduction) = 2
     /\ \A i \in 1..2 : ActiveProduction[i].value = 2
     /\ progression.ticked)
        => /\ progression.production = 4
           /\ progression.last = "updateProduction"
                => progression.currencyPerSecond = 4 * progression.owned

\* C26: right after addTemporaryMultiplier returns, currencyPerSecond is the
\* un-boosted production times the temporary production multipliers,
\* the new one included.
C26_BoostEffectiveImmediately ==
    (progression.last = "addTemporaryMultiplier" /\ progression.added = 1)
        => progression.currencyPerSecond =
                progression.owned * ProductOf(progression.temporary, "production")

\* C27: once every temporary multiplier that was added has expired,
\* multipliers.production and multipliers.click are 1 again and the production
\* the timer computes is that of the auto clickers alone.
C27_ExpiryReversesExactly ==
    (progression.temporary = <<>> /\ progression.added > 0)
        => /\ progression.production = 1
           /\ progression.click = 1
           /\ progression.last = "updateProduction"
                => progression.currencyPerSecond = progression.owned

\* C28: after a save followed by a restart the game has no active event:
\* EventSystem.activeEvent and the loaded state.event are both null, whatever
\* was persisted.
C28_RestartBeginsIdle ==
    [][Restart => (activeEvent' = Null /\ IsNull(state'.event))]_vars

\* C29: a loop iteration processed at or after the endsAt of the active event
\* (and starting no new event) accrues biomass at the reverted rate, the one
\* the expiry check of that iteration writes back.
C29_ExpiredEventAccruesAtRevertedRate ==
    [][\A deltaSeconds \in LoopDeltas, pick \in EventIds :
            (Expired(activeEvent, now) /\ Loop(deltaSeconds, FALSE, pick))
                => state'.totalBiomass = state.totalBiomass
                        + EndEvent(state, activeEvent).growthPerSecond * deltaSeconds]_vars

\* C30: between the first mutation of executePrestige (updateStatistics) and
\* its last (applyMilestoneRewards, unlockPrestigeUpgrades) no other handler
\* runs: while a call is suspended the only step taken is its own resumption.
C30_ExecutePrestigeNeverInterleaved ==
    [][prestige.inflight # <<>> => ExecutePrestigeResume]_vars

Idle == IsNull(activeEvent) /\ IsNull(state.event)

\* C33: whenever no event is active, growthPerSecond and growthPerClick are
\* the values _recalculateProduction computes from the owned upgrades and the
\* prestigeMultiplier.
C33_IdleProductionIsRecalculated ==
    Idle => /\ state.growthPerSecond = RecalculateProduction(state).growthPerSecond
            /\ state.growthPerClick = RecalculateProduction(state).growthPerClick

\* C34: while solar-flare is active, growthPerSecond is the event multiplier
\* times the production _recalculateProduction computes from the owned
\* upgrades.
C34_SolarFlareDoublesProduction ==
    (activeEvent.id = "solar-flare" /\ state.event.id = "solar-flare")
        => state.growthPerSecond =
                activeEvent.multiplier * RecalculateProduction(state).growthPerSecond

\* C37: the spendable biomass never exceeds the lifetime total.
C37_BiomassAtMostTotal == state.biomass <= state.totalBiomass

\* a purchase has spent biomass that stays counted in the total, and biomass
\* has been earned again since
C37_Witness ==
    /\ SumOver(state.upgrades, UpgradeIds) > 0
    /\ 0 < state.biomass
    /\ state.biomass < state.totalBiomass

\* C35: EventSystem.activeEvent and the stored state.event always agree:
\* both are null or both denote the same event (same id and endsAt).
C35_ActiveAndStoredEventAgree ==
    \/ Idle
    \/ /\ ~IsNull(activeEvent)
       /\ ~IsNull(state.event)
       /\ state.event.id = activeEvent.id
       /\ state.event.endsAt = activeEvent.endsAt

\* C36: an update(deltaTime) that follows another update with no multiplier
\* added in between and that expires none leaves multipliers.production and
\* multipliers.click unchanged.
C36_UpdateDoesNotReapply ==
    [][\A deltaTime \in BoostDeltas :
            (/\ progression.ticked
             /\ ProgressionUpdate(deltaTime)
             /\ Len(progression'.temporary) = Len(progression.temporary))
                => /\ progression'.production = progression.production
                   /\ progression'.click = progression.click]_vars

\* C39: a successful purchaseUpgrade deducts exactly calculateUpgradeCost of
\* the units it added, also when the amount was clamped to maxOwned - owned.
C39_ClampedPurchaseCostsClampedAmount ==
    probe.after.value
        => probe.before.currency - probe.after.currency =
                CalculateUpgradeCost(probe.before.owned,
                                     probe.after.owned - probe.before.owned)

\* C32: in the backend EventSystem at most one event is active at a time.
C32_BackendAtMostOneActive == Len(social.activeEvents) <= 1

\* the number of entries the history holds for the event with the given id
HistoryEntries(id) ==
    Cardinality({k \in DOMAIN social.eventHistory : social.eventHistory[k] = id})

\* C38: each started event is ended exactly once: no event has two entries
\* in eventHistory, an event that left the active ones has one, and no
\* cleanup runs twice.
C38_EndedExactlyOnce ==
    \A id \in 1..social.totalEventsRun :
        /\ HistoryEntries(id) <= 1
        /\ ActiveIndex(social, id) = 0 => HistoryEntries(id) = 1
        /\ Cardinality({k \in DOMAIN social.cleanups : social.cleanups[k] = id}) <= 1

\* C40: once a clickRush event and a timed challenge have both ended,
\* game.click is the original click handler again.
C40_ClickHandlerRestored ==
    (/\ social.challenge.phase = "over"
     /\ social.cleanups # <<>>
     /\ social.activeEvents = <<>>)
        => social.click = OriginalClick

====
